---- MODULE Spec2Model ----
(***************************************************************************)
(* A model of Channel (src/game/Chat/Channel.cpp): one chat channel, its   *)
(* member table, ban set, owner and mode flags, and the notices each       *)
(* command sends.  Every command handler is one action; the handler's      *)
(* body is an operator over a channel record, composed in the order of the *)
(* statements of the code.                                                 *)
(***************************************************************************)
EXTENDS Integers, Sequences, FiniteSets, TLC

\* ------------------------------------------------------------ bounds
\* Number of player identities that exist in the world of Spec.
MaxGuid == 2
\* The non-zero value CONFIG_UINT32_CHANNEL_STATIC_AUTO_TRESHOLD may take.
AutoTreshold == 2
\* Cap of the counter of successful joins kept for the Join/Leave count.
MaxJoins == 4

\* ------------------------------------------------------------ world
Guids == 1..MaxGuid
\* ObjectGuid(): the empty identity
NoGuid == 0
\* The passwords a client may type; "" is the empty password.
Passwords == {"", "pw"}
Tresholds == {0, AutoTreshold}
\* CONFIG_UINT32_CHANNEL_RESTRICTED_LANGUAGE_MODE
RestrictionModes == 0..3

CHANNEL_ID_LOCAL_DEFENSE == 22
CHANNEL_ID_WORLD_DEFENSE == 23
\* GetChannelEntryFor(name): no entry for a custom name, else a catalog entry.
NoEntry == [ChannelID |-> 0, flags |-> {}]
ChannelCatalog ==
    { NoEntry,
      [ChannelID |-> CHANNEL_ID_LOCAL_DEFENSE, flags |-> {}],
      [ChannelID |-> 25, flags |-> {"CITY_ONLY2"}] }

MEMBER_FLAG_NONE == {}
MEMBER_FLAG_OWNER == "OWNER"
MEMBER_FLAG_MODERATOR == "MODERATOR"
MEMBER_FLAG_MUTED == "MUTED"
\* The flag value 0x38 of Join's guild rule: NOT_LFG | GENERAL | CITY.
Flags0x38 == {"NOT_LFG", "GENERAL", "CITY"}

VARIABLES
    m_players,      \* member table: identity -> role flags, iterated by key
    m_banned,       \* set of banned identities
    m_ownerGuid,    \* owner identity, NoGuid when there is none
    m_password,
    m_announce,
    m_moderate,
    m_static,
    m_channelId,    \* non-zero for a built-in channel
    m_flags,        \* channel flags set by the constructor
    m_realmzone,    \* set by the constructor
    world,          \* the player identities that exist
    gms,            \* the identities whose session security is >= SEC_GAMEMASTER
    out,            \* the packets the last command sent, in order
    result,         \* the path the last command ended on
    joinOrder,      \* history: the members in the order they joined
    njoin,          \* history: number of successful joins
    nleave          \* history: number of successful leaves

chanVars == <<m_players, m_banned, m_ownerGuid, m_password, m_announce,
              m_moderate, m_static>>
fixedVars == <<m_channelId, m_flags, m_realmzone, world, gms>>
histVars == <<joinOrder, njoin, nleave>>
vars == <<chanVars, fixedVars, out, result, histVars>>

\* ------------------------------------------------------------ collaborators
IsGM(p) == p \in gms
\* Player::GetTeam(): fixed per character.
GetTeam(p) == IF p % 2 = 1 THEN "ALLIANCE" ELSE "HORDE"

\* ------------------------------------------------------------ PlayerInfo
PI_IsOwner(f) == MEMBER_FLAG_OWNER \in f
PI_IsModerator(f) == MEMBER_FLAG_MODERATOR \in f
PI_IsMuted(f) == MEMBER_FLAG_MUTED \in f
PI_SetFlag(f, flag, state) == IF state THEN f \cup {flag} ELSE f \ {flag}

\* ------------------------------------------------------------ channel record
\* The channel as the handlers see it, with the packets sent so far.
Chan ==
    [players |-> m_players, banned |-> m_banned, ownerGuid |-> m_ownerGuid,
     password |-> m_password, announce |-> m_announce, moderate |-> m_moderate,
     static |-> m_static, out |-> <<>>, res |-> "ok"]

IsOn(c, guid) == guid \in DOMAIN c.players
IsBanned(c, guid) == guid \in c.banned
IsConstant == m_channelId # 0
IsPublic(c) == IsConstant \/ c.static
HasFlag(flag) == flag \in m_flags
GetNumPlayers(c) == Cardinality(DOMAIN c.players)
GetPlayerFlags(c, guid) ==
    IF guid \in DOMAIN c.players THEN c.players[guid] ELSE MEMBER_FLAG_NONE

RECURSIVE SortedSeq(_)
\* The elements of a set of identities in ascending order.
SortedSeq(S) ==
    IF S = {} THEN <<>>
    ELSE LET m == CHOOSE x \in S : \A y \in S : x <= y
         IN  <<m>> \o SortedSeq(S \ {m})

\* The keys of the member table in iteration order (ascending identity).
PlayerList(c) == SortedSeq(DOMAIN c.players)

\* ------------------------------------------------------------ packets
Packet(kind, guid, aux) == [kind |-> kind, guid |-> guid, aux |-> aux]
Delivery(data, receiver) ==
    [to |-> receiver, kind |-> data.kind, guid |-> data.guid, aux |-> data.aux]

SendToOne(c, data, receiver) ==
    [c EXCEPT !.out = Append(@, Delivery(data, receiver))]

SendToAll(c, data) ==
    LET list == PlayerList(c)
    IN  [c EXCEPT !.out = @ \o [i \in 1..Len(list) |-> Delivery(data, list[i])]]

\* SendMessage with the ignore lists consulted whatever sender is.
SendMessage_AlwaysFilter(c, data, sender, ignorers) ==
    LET list == SelectSeq(PlayerList(c), LAMBDA g : g \notin ignorers)
    IN  [c EXCEPT !.out = @ \o [i \in 1..Len(list) |-> Delivery(data, list[i])]]

\* SendMessage with the ignore lists never consulted.
SendMessage_NoFilter(c, data, sender, ignorers) ==
    LET list == PlayerList(c)
    IN  [c EXCEPT !.out = @ \o [i \in 1..Len(list) |-> Delivery(data, list[i])]]

\* SendMessage(data, sender): ignorers are the players whose ignore list
\* holds sender (Player::GetSocial()->HasIgnore(sender)).
SendMessage(c, data, sender, ignorers) ==
    LET list == SelectSeq(PlayerList(c),
                          LAMBDA g : sender = NoGuid \/ g \notin ignorers)
    IN  [c EXCEPT !.out = @ \o [i \in 1..Len(list) |-> Delivery(data, list[i])]]

\* The early return of a handler that looked the actor up with m_players[guid],
\* which enters an identity the table does not hold.
Fail_Inserts(c, kind, guid, receiver) ==
    [c EXCEPT !.players = (receiver :> GetPlayerFlags(c, receiver)) @@ @,
              !.out = Append(@, Delivery(Packet(kind, guid, <<>>), receiver)),
              !.res = kind]

\* The early return of a handler with its notice sent to every member.
Fail_Broadcast(c, kind, guid, receiver) ==
    [SendToAll(c, Packet(kind, guid, <<>>)) EXCEPT !.res = kind]

\* A handler's early return after one notice to the actor.
Fail(c, kind, guid, receiver) ==
    [SendToOne(c, Packet(kind, guid, <<>>), receiver) EXCEPT !.res = kind]

\* ------------------------------------------------------------ ownership
\* SelectNewOwner without the preference for moderators.
SelectNewOwner_FirstMember(c) ==
    LET list == PlayerList(c)
    IN  IF list = <<>> THEN NoGuid ELSE list[1]

SelectNewOwner(c) ==
    LET list == PlayerList(c)
        mods == SelectSeq(list, LAMBDA g : PI_IsModerator(c.players[g]))
    IN  IF mods # <<>> THEN mods[1]
        ELSE IF list = <<>> THEN NoGuid ELSE list[1]

MakeModeChange(guid, oldFlag, newFlag) ==
    Packet("ModeChange", guid, <<oldFlag, newFlag>>)

\* SetOwner that leaves the owner bit with the previous owner.
SetOwner_OldOwnerKeepsBit(c, guid, exclaim) ==
    LET old == c.ownerGuid
        c1 == IF old # NoGuid /\ old \in DOMAIN c.players
              THEN LET f1 == PI_SetFlag(c.players[old], MEMBER_FLAG_MODERATOR,
                                        guid # NoGuid)
                       cA == [c EXCEPT !.players[old] = f1]
                   IN  SendToAll(cA, MakeModeChange(guid, f1,
                                                    GetPlayerFlags(cA, guid)))
              ELSE c
        c2 == [c1 EXCEPT !.ownerGuid = guid]
        c3 == IF guid # NoGuid
              THEN LET f1 == PI_SetFlag(GetPlayerFlags(c2, guid),
                                        MEMBER_FLAG_MODERATOR, TRUE)
                       cB == [c2 EXCEPT !.players =
                                  (guid :> PI_SetFlag(f1, MEMBER_FLAG_OWNER, TRUE))
                                  @@ c2.players]
                   IN  SendToAll(cB, MakeModeChange(guid, f1,
                                                    GetPlayerFlags(cB, guid)))
              ELSE c2
    IN  IF exclaim
        THEN SendToAll(c3, Packet("OwnerChanged", guid, <<>>))
        ELSE c3

\* SetOwner that takes the moderator bit from the previous owner whoever the
\* new owner is.
SetOwner_OldOwnerDemoted(c, guid, exclaim) ==
    LET old == c.ownerGuid
        c1 == IF old # NoGuid /\ old \in DOMAIN c.players
              THEN LET f1 == PI_SetFlag(c.players[old], MEMBER_FLAG_MODERATOR,
                                        FALSE)
                       cA == [c EXCEPT !.players[old] =
                                  PI_SetFlag(f1, MEMBER_FLAG_OWNER, FALSE)]
                   IN  SendToAll(cA, MakeModeChange(guid, f1,
                                                    GetPlayerFlags(cA, guid)))
              ELSE c
        c2 == [c1 EXCEPT !.ownerGuid = guid]
        c3 == IF guid # NoGuid
              THEN LET f1 == PI_SetFlag(GetPlayerFlags(c2, guid),
                                        MEMBER_FLAG_MODERATOR, TRUE)
                       cB == [c2 EXCEPT !.players =
                                  (guid :> PI_SetFlag(f1, MEMBER_FLAG_OWNER, TRUE))
                                  @@ c2.players]
                   IN  SendToAll(cB, MakeModeChange(guid, f1,
                                                    GetPlayerFlags(cB, guid)))
              ELSE c2
    IN  IF exclaim
        THEN SendToAll(c3, Packet("OwnerChanged", guid, <<>>))
        ELSE c3

SetOwner(c, guid, exclaim) ==
    LET old == c.ownerGuid
        c1 == IF old # NoGuid /\ old \in DOMAIN c.players
              THEN LET f1 == PI_SetFlag(c.players[old], MEMBER_FLAG_MODERATOR,
                                        guid # NoGuid)
                       cA == [c EXCEPT !.players[old] =
                                  PI_SetFlag(f1, MEMBER_FLAG_OWNER, FALSE)]
                   IN  SendToAll(cA, MakeModeChange(guid, f1,
                                                    GetPlayerFlags(cA, guid)))
              ELSE c
        c2 == [c1 EXCEPT !.ownerGuid = guid]
        c3 == IF guid # NoGuid
              THEN LET f1 == PI_SetFlag(GetPlayerFlags(c2, guid),
                                        MEMBER_FLAG_MODERATOR, TRUE)
                       cB == [c2 EXCEPT !.players =
                                  (guid :> PI_SetFlag(f1, MEMBER_FLAG_OWNER, TRUE))
                                  @@ c2.players]
                   IN  SendToAll(cB, MakeModeChange(guid, f1,
                                                    GetPlayerFlags(cB, guid)))
              ELSE c2
    IN  IF exclaim
        THEN SendToAll(c3, Packet("OwnerChanged", guid, <<>>))
        ELSE c3

\* Channel::SetModerator(guid, set) and Channel::SetMute(guid, set): flip the
\* bit when it differs and broadcast the role change.
SetMemberFlag(c, guid, flag, set) ==
    LET oldFlag == GetPlayerFlags(c, guid)
    IN  IF (flag \in oldFlag) # set
        THEN LET cA == [c EXCEPT !.players =
                            (guid :> PI_SetFlag(oldFlag, flag, set)) @@ c.players]
             IN  SendToAll(cA, MakeModeChange(guid, oldFlag,
                                              GetPlayerFlags(cA, guid)))
        ELSE c
SetModerator(c, guid, set) == SetMemberFlag(c, guid, MEMBER_FLAG_MODERATOR, set)
SetMute(c, guid, set) == SetMemberFlag(c, guid, MEMBER_FLAG_MUTED, set)

\* The default of SetOwner's exclaim parameter, used by SetStatic.
SetOwnerDefaultExclaim == FALSE

\* ------------------------------------------------------------ static conversion
\* SetStatic without the loop that strips the moderators.
StripModerators_None(c, i) == c

RECURSIVE StripModerators(_, _)
\* The loop of SetStatic over the member table, from position i on.
StripModerators(c, i) ==
    LET list == PlayerList(c)
    IN  IF i > Len(list) THEN c
        ELSE StripModerators(
                 IF PI_IsModerator(c.players[list[i]])
                 THEN SetModerator(c, list[i], FALSE) ELSE c,
                 i + 1)

\* The first check of SetStatic, without the already-at-target-state test.
StaticUnchangeable_BuiltInOnly(c, state) == IsConstant \/ ~HasFlag("CUSTOM")

\* Only custom channels can be set to static, and only to the other state.
StaticUnchangeable(c, state) ==
    IsConstant \/ ~HasFlag("CUSTOM") \/ c.static = state

\* The password check of SetStatic left out.
StaticPasswordBlock_Never(c, state) == FALSE

\* The conversion to static cannot be performed while a password is set.
StaticPasswordBlock(c, state) == state /\ c.password # ""

\* The treshold test of SetStatic without the test for a treshold of zero.
AutoBlocked_NoZeroTest(c, state, command, treshold) ==
    ~command /\ state # (GetNumPlayers(c) >= treshold)

\* Detect auto-conversion and reaching the treshold: a call that is not a
\* command goes on only with a non-zero treshold that the member count
\* compares to as the requested state says.
AutoBlocked(c, state, command, treshold) ==
    ~command /\ (treshold = 0 \/ state # (GetNumPlayers(c) >= treshold))

\* bool Channel::SetStatic(state, command); res holds the value returned and,
\* for false, the check that returned it.
SetStatic(c, state, command, treshold) ==
    IF StaticUnchangeable(c, state)
    THEN [c EXCEPT !.res = "false:same"]
    ELSE IF StaticPasswordBlock(c, state)
    THEN [c EXCEPT !.res = "false:password"]
    ELSE IF AutoBlocked(c, state, command, treshold)
    THEN [c EXCEPT !.res = "false:treshold"]
    ELSE
    LET c1 == IF state THEN StripModerators(c, 1) ELSE c
        c2 == IF state = (c1.ownerGuid # NoGuid)
              THEN SetOwner(c1, IF state THEN NoGuid ELSE SelectNewOwner(c1),
                            SetOwnerDefaultExclaim)
              ELSE c1
        c3 == IF state /\ c2.moderate
              THEN SendToAll([c2 EXCEPT !.moderate = FALSE],
                             Packet("ModerationOff", NoGuid, <<>>))
              ELSE c2
        c4 == IF state /\ c3.announce
              THEN SendToAll([c3 EXCEPT !.announce = FALSE],
                             Packet("AnnouncementsOff", NoGuid, <<>>))
              ELSE c3
    IN  [c4 EXCEPT !.static = state, !.res = "true"]

\* ------------------------------------------------------------ membership
\* The gate of the joined / left announcement.
Announces(c, player, gmSilent) == c.announce /\ (~IsGM(player) \/ ~gmSilent)

\* The banned check of Join left out.
JoinBanned_Never(c, player) == FALSE

\* if (IsBanned(guid)): a banned identity is turned away.
JoinBanned(c, player) == IsBanned(c, player)

\* The joined notice sent to the joining player as well.
JoinAnnounce_WithActor(c, player, gmSilent) ==
    IF Announces(c, player, gmSilent)
    THEN SendToOne(SendToAll(c, Packet("Joined", player, <<>>)),
                   Packet("Joined", player, <<>>), player)
    ELSE c

\* The joined notice of Join, sent to the members the table holds when the
\* notice is made, which is before the player is entered.
JoinAnnounce(c, player, gmSilent) ==
    IF Announces(c, player, gmSilent)
    THEN SendToAll(c, Packet("Joined", player, <<>>))
    ELSE c

\* Join that reports the player joined without entering it in the table.
JoinInsert_Skip(c, player) == c

\* PlayerInfo& pinfo = m_players[guid]; pinfo.flags = MEMBER_FLAG_NONE.
JoinInsert(c, player) ==
    [c EXCEPT !.players = (player :> MEMBER_FLAG_NONE) @@ c.players]

\* The owner rule of Join without the test for a public channel.
JoinTakesOwnership_NoPublicTest(c) == c.ownerGuid = NoGuid

\* if no owner first logged will become: not in a public channel.
JoinTakesOwnership(c) == ~IsPublic(c) /\ c.ownerGuid = NoGuid

JoinOp(c, player, password, guild, gmSilent, treshold) ==
    IF IsOn(c, player)
    THEN IF ~IsConstant
         THEN Fail(c, "PlayerAlreadyMember", player, player)
         ELSE [c EXCEPT !.res = "PlayerAlreadyMember"]
    ELSE IF JoinBanned(c, player)
    THEN Fail(c, "Banned", NoGuid, player)
    ELSE IF c.password # "" /\ password # c.password
    THEN Fail(c, "WrongPassword", NoGuid, player)
    ELSE IF guild /\ m_flags = Flags0x38
    THEN [c EXCEPT !.res = "Refused"]
    ELSE
    LET c1 == JoinAnnounce(c, player, gmSilent)
        c2 == JoinInsert(c1, player)
        c3 == SendToOne(c2, Packet("YouJoined", NoGuid, <<>>), player)
        c4 == IF JoinTakesOwnership(c3)
              THEN SetOwner(c3, player, GetNumPlayers(c3) > 1)
              ELSE c3
    IN  [SetStatic(c4, TRUE, FALSE, treshold) EXCEPT !.res = "ok"]

\* Removes a key from the member table: m_players.erase(guid).
Erase(players, guid) == [g \in DOMAIN players \ {guid} |-> players[g]]

LeaveOp(c, player, send, gmSilent) ==
    IF ~IsOn(c, player)
    THEN IF send
         THEN Fail(c, "NotMember", NoGuid, player)
         ELSE [c EXCEPT !.res = "NotMember"]
    ELSE
    LET c1 == IF send
              THEN SendToOne(c, Packet("YouLeft", NoGuid, <<>>), player)
              ELSE c
        changeowner == PI_IsOwner(c1.players[player])
        c2 == [c1 EXCEPT !.players = Erase(@, player)]
        c3 == IF Announces(c2, player, gmSilent)
              THEN SendToAll(c2, Packet("Left", player, <<>>))
              ELSE c2
    IN  IF changeowner /\ ~IsPublic(c3)
        THEN SetOwner(c3, SelectNewOwner(c3), GetNumPlayers(c3) > 1)
        ELSE c3

\* The gate shared by KickOrBan, UnBan, Password, SetMode, Announce, Moderate:
\* the actor is a member and is moderator or has GM security.
ModGate(c, player) ==
    IF ~IsOn(c, player) THEN "NotMember"
    ELSE IF ~PI_IsModerator(c.players[player]) /\ ~IsGM(player) THEN "NotModerator"
    ELSE "ok"

\* The ownership protection of KickOrBan with every moderator let through.
KickOwnerProtected_ModeratorsPass(c, player, target) ==
    /\ ~IsGM(player)
    /\ c.ownerGuid = target
    /\ player # c.ownerGuid
    /\ ~PI_IsModerator(GetPlayerFlags(c, player))

\* The ownership protection of KickOrBan: the owner is removed only by an
\* actor of GM security or by itself.
KickOwnerProtected(c, player, target) ==
    ~IsGM(player) /\ c.ownerGuid = target /\ player # c.ownerGuid

\* KickOrBan that leaves the target in the member table.
KickErase_Skip(c, target) == c

\* m_players.erase(targetGuid) of KickOrBan.
KickErase(c, target) == [c EXCEPT !.players = Erase(@, target)]

KickOrBanOp(c, player, target, ban) ==
    IF ModGate(c, player) # "ok"
    THEN Fail(c, ModGate(c, player), NoGuid, player)
    ELSE IF target = NoGuid \/ ~IsOn(c, target)
    THEN Fail(c, "PlayerNotFound", NoGuid, player)
    ELSE
    LET changeowner == c.ownerGuid = target
    IN  IF KickOwnerProtected(c, player, target)
        THEN Fail(c, "NotOwner", NoGuid, player)
        ELSE
        LET c1 == IF ban /\ ~IsBanned(c, target)
                  THEN SendToAll([c EXCEPT !.banned = @ \cup {target}],
                                 Packet("PlayerBanned", target, <<player>>))
                  ELSE SendToAll(c, Packet("PlayerKicked", target, <<player>>))
            c2 == KickErase(c1, target)
        IN  IF changeowner /\ ~IsPublic(c2)
            THEN SetOwner(c2, SelectNewOwner(c2), GetNumPlayers(c2) > 1)
            ELSE c2

\* UnBan that announces the unban without taking the identity out of the set.
UnBanErase_Skip(c, target) == c

\* m_banned.erase(targetGuid) of UnBan.
UnBanErase(c, target) == [c EXCEPT !.banned = @ \ {target}]

UnBanOp(c, player, target) ==
    IF ModGate(c, player) # "ok"
    THEN Fail(c, ModGate(c, player), NoGuid, player)
    ELSE IF target = NoGuid
    THEN Fail(c, "PlayerNotFound", NoGuid, player)
    ELSE IF ~IsBanned(c, target)
    THEN Fail(c, "PlayerNotBanned", NoGuid, player)
    ELSE SendToAll(UnBanErase(c, target),
                   Packet("PlayerUnbanned", target, <<player>>))

PasswordOp(c, player, password) ==
    IF ModGate(c, player) # "ok"
    THEN Fail(c, ModGate(c, player), NoGuid, player)
    ELSE SendToAll([c EXCEPT !.password = password],
                   Packet("PasswordChanged", player, <<>>))

\* ------------------------------------------------------------ roles
\* The owner rule of SetMode with actors of GM security let through, as the
\* owner rule of KickOrBan lets them.
SetModeOwnerProtected_GMsPass(c, player, target) ==
    ~IsGM(player) /\ c.ownerGuid = target /\ c.ownerGuid # player

\* The owner rule of SetMode: nobody but the owner changes the owner's flags.
SetModeOwnerProtected(c, player, target) ==
    c.ownerGuid = target /\ c.ownerGuid # player

SetModeOp(c, player, target, moderator, set, twoSide) ==
    IF ModGate(c, player) # "ok"
    THEN Fail(c, ModGate(c, player), NoGuid, player)
    ELSE IF target = NoGuid
    THEN Fail(c, "PlayerNotFound", NoGuid, player)
    ELSE IF moderator /\ player = c.ownerGuid /\ target = c.ownerGuid
    THEN [c EXCEPT !.res = "NoOp"]
    ELSE IF ~IsOn(c, target)
    THEN Fail(c, "PlayerNotFound", NoGuid, player)
    ELSE IF (~IsGM(player) \/ ~IsGM(target))
            /\ GetTeam(player) # GetTeam(target) /\ ~twoSide
    THEN Fail(c, "PlayerNotFound", NoGuid, player)
    ELSE IF SetModeOwnerProtected(c, player, target)
    THEN Fail(c, "NotOwner", NoGuid, player)
    ELSE IF moderator
    THEN SetModerator(c, target, set)
    ELSE SetMute(c, target, set)

\* Channel::SetOwner(Player*, const char*): the owner-transfer command.
SetOwnerCmdOp(c, player, target, twoSide) ==
    IF ~IsOn(c, player)
    THEN Fail(c, "NotMember", NoGuid, player)
    ELSE IF ~IsGM(player) /\ player # c.ownerGuid
    THEN Fail(c, "NotOwner", NoGuid, player)
    ELSE IF target = NoGuid \/ ~IsOn(c, target)
    THEN Fail(c, "PlayerNotFound", NoGuid, player)
    ELSE IF GetTeam(target) # GetTeam(player) /\ ~twoSide
    THEN Fail(c, "PlayerNotFound", NoGuid, player)
    ELSE SetOwner(c, target, GetNumPlayers(c) > 1)

AnnounceOp(c, player) ==
    IF ModGate(c, player) # "ok"
    THEN Fail(c, ModGate(c, player), NoGuid, player)
    ELSE SendToAll([c EXCEPT !.announce = ~c.announce],
                   Packet(IF ~c.announce THEN "AnnouncementsOn"
                          ELSE "AnnouncementsOff", player, <<>>))

ModerateOp(c, player) ==
    IF ModGate(c, player) # "ok"
    THEN Fail(c, ModGate(c, player), NoGuid, player)
    ELSE SendToAll([c EXCEPT !.moderate = ~c.moderate],
                   Packet(IF ~c.moderate THEN "ModerationOn"
                          ELSE "ModerationOff", player, <<>>))

\* ------------------------------------------------------------ speech
\* The honor-rank gate of the two defense channels; rankOk says the actor's
\* visualRank reaches the rank the channel asks for.
RankGated(rankOk) ==
    m_channelId \in {CHANNEL_ID_LOCAL_DEFENSE, CHANNEL_ID_WORLD_DEFENSE} /\ ~rankOk

Restricted(c, restriction) ==
    CASE restriction = 1 -> IsConstant
      [] restriction = 2 -> IsPublic(c) /\ m_realmzone
      [] restriction = 3 -> TRUE
      [] OTHER -> FALSE

\* The mute check of Say with moderators exempt from their muted bit.
SayMuted_ModeratorsExempt(c, player, rankOk) ==
    \/ PI_IsMuted(c.players[player]) /\ ~PI_IsModerator(c.players[player])
    \/ RankGated(rankOk)

\* The mute check of Say: the muted bit, or the rank gate of a defense channel.
SayMuted(c, player, rankOk) ==
    PI_IsMuted(c.players[player]) \/ RankGated(rankOk)

\* hasText: text is not null; langOk: CheckPublicMessageLanguage(text).
SayOp(c, player, hasText, rankOk, restriction, langOk, ignorers) ==
    IF ~hasText
    THEN [c EXCEPT !.res = "NoText"]
    ELSE IF ~IsOn(c, player)
    THEN Fail(c, "NotMember", NoGuid, player)
    ELSE IF SayMuted(c, player, rankOk)
    THEN Fail(c, "Muted", NoGuid, player)
    ELSE
    LET moderator == PI_IsModerator(c.players[player])
    IN  IF c.moderate /\ ~moderator /\ ~IsGM(player)
        THEN Fail(c, "NotModerator", NoGuid, player)
        ELSE IF restriction # 0 /\ Restricted(c, restriction) /\ ~langOk
        THEN Fail(c, "Muted", NoGuid, player)
        ELSE SendMessage(c, Packet("ChatMsg", player, <<>>),
                         IF moderator THEN NoGuid ELSE player, ignorers)

\* targetIgnores: target->GetSocial()->HasIgnore(guid).
InviteOp(c, player, target, twoSide, targetIgnores) ==
    IF ~IsOn(c, player)
    THEN Fail(c, "NotMember", NoGuid, player)
    ELSE IF target = NoGuid
    THEN Fail(c, "PlayerNotFound", NoGuid, player)
    ELSE IF IsOn(c, target)
    THEN Fail(c, "PlayerAlreadyMember", target, player)
    ELSE IF IsBanned(c, target)
    THEN Fail(c, "PlayerInviteBanned", NoGuid, player)
    ELSE IF GetTeam(target) # GetTeam(player) /\ ~twoSide
    THEN Fail(c, "InviteWrongFaction", NoGuid, player)
    ELSE
    LET c1 == IF ~targetIgnores
              THEN SendToOne(c, Packet("Invite", player, <<>>), target)
              ELSE c
    IN  SendToOne(c1, Packet("PlayerInvited", target, <<>>), player)

\* ------------------------------------------------------------ queries
\* Channel::SendWhoOwner: the reply is made from the identity of the actor
\* (MakeChannelOwner(data, m_name, guid)); the owner identity the handler
\* works out is not used.
SendWhoOwnerOp(c, player) ==
    IF ~IsOn(c, player)
    THEN Fail(c, "NotMember", NoGuid, player)
    ELSE SendToOne(c, Packet("ChannelOwner", player, <<>>), player)

\* Channel::List: the members in table order with their flags, without the
\* hidden ones (a player does not see the members above the who-list security
\* level nor those not globally visible to it).
ListOp(c, player, hidden) ==
    IF ~IsOn(c, player)
    THEN Fail(c, "NotMember", NoGuid, player)
    ELSE LET shown == SelectSeq(PlayerList(c), LAMBDA g : g \notin hidden)
         IN  SendToOne(c, Packet("ChannelList", NoGuid,
                                 [i \in 1..Len(shown) |->
                                     <<shown[i], c.players[shown[i]]>>]),
                       player)

\* ------------------------------------------------------------ construction
\* Channel::Channel(name): ch is the catalog entry of the name, realmzone the
\* value of CheckPublicMessageLanguage(name) for a custom name.
Construct(ch, realmzone) ==
    /\ m_players = <<>>
    /\ m_banned = {}
    /\ m_ownerGuid = NoGuid
    /\ m_password = ""
    /\ m_moderate = FALSE
    /\ m_static = FALSE
    /\ m_channelId = ch.ChannelID
    /\ m_announce = (ch = NoEntry)
    /\ m_flags =
         IF ch # NoEntry
         THEN {"GENERAL"}
              \cup (IF "TRADE" \in ch.flags THEN {"TRADE"} ELSE {})
              \cup (IF "CITY_ONLY2" \in ch.flags THEN {"CITY"} ELSE {})
              \cup (IF "LFG" \in ch.flags THEN {"LFG"} ELSE {"NOT_LFG"})
         ELSE {"CUSTOM"}
    /\ m_realmzone = IF ch # NoEntry THEN TRUE ELSE realmzone

\* ------------------------------------------------------------ actions
\* The state a handler leaves: the channel record written back, the packets
\* it sent and the path it ended on.
Commit(c) ==
    /\ m_players' = c.players
    /\ m_banned' = c.banned
    /\ m_ownerGuid' = c.ownerGuid
    /\ m_password' = c.password
    /\ m_announce' = c.announce
    /\ m_moderate' = c.moderate
    /\ m_static' = c.static
    /\ out' = c.out
    /\ result' = c.res
    /\ UNCHANGED fixedVars

Join(player, password, guild, gmSilent, treshold) ==
    Commit(JoinOp(Chan, player, password, guild, gmSilent, treshold))
Leave(player, send, gmSilent) == Commit(LeaveOp(Chan, player, send, gmSilent))
KickOrBan(player, target, ban) == Commit(KickOrBanOp(Chan, player, target, ban))
UnBan(player, target) == Commit(UnBanOp(Chan, player, target))
Password(player, password) == Commit(PasswordOp(Chan, player, password))
SetMode(player, target, moderator, set, twoSide) ==
    Commit(SetModeOp(Chan, player, target, moderator, set, twoSide))
SetOwnerCmd(player, target, twoSide) ==
    Commit(SetOwnerCmdOp(Chan, player, target, twoSide))
Announce(player) == Commit(AnnounceOp(Chan, player))
Moderate(player) == Commit(ModerateOp(Chan, player))
Say(player, hasText, rankOk, restriction, langOk, ignorers) ==
    Commit(SayOp(Chan, player, hasText, rankOk, restriction, langOk, ignorers))
Invite(player, target, twoSide, targetIgnores) ==
    Commit(InviteOp(Chan, player, target, twoSide, targetIgnores))
SendWhoOwner(player) == Commit(SendWhoOwnerOp(Chan, player))
List(player, hidden) == Commit(ListOp(Chan, player, hidden))
\* SetStatic called from outside Join: by command, or automatically.
SetStaticCall(state, command, treshold) ==
    Commit(SetStatic(Chan, state, command, treshold))

\* The handlers below are tried with every input that can change what they
\* do; an input the handler cannot read in the current state (the guild of a
\* player outside the 0x38 rule, the GM-silent-join setting for a non-GM, the
\* honor rank outside a defense channel, the cross-faction setting for two
\* players of one team, the ignore lists of non-members) is held at one value.
Idle == result = "idle"
\* What sObjectMgr.GetPlayer(targetName) may give: a player, or null (NoGuid).
Targets == world \cup {NoGuid}

DoJoin ==
    /\ Idle
    /\ \E player \in world, password \in Passwords, guild, gmSilent \in BOOLEAN,
          treshold \in Tresholds :
           /\ guild => m_flags = Flags0x38
           /\ gmSilent => IsGM(player)
           /\ Join(player, password, guild, gmSilent, treshold)
DoLeave ==
    /\ Idle
    /\ \E player \in world, send, gmSilent \in BOOLEAN :
           /\ gmSilent => IsGM(player)
           /\ Leave(player, send, gmSilent)
DoKickOrBan ==
    /\ Idle
    /\ \E player \in world, target \in Targets, ban \in BOOLEAN :
           KickOrBan(player, target, ban)
DoUnBan ==
    /\ Idle
    /\ \E player \in world, target \in Targets : UnBan(player, target)
DoPassword ==
    /\ Idle
    /\ \E player \in world, password \in Passwords : Password(player, password)
DoSetMode ==
    /\ Idle
    /\ \E player \in world, target \in Targets,
          moderator, set, twoSide \in BOOLEAN :
           /\ twoSide => (target # NoGuid /\ GetTeam(player) # GetTeam(target))
           /\ SetMode(player, target, moderator, set, twoSide)
DoSetOwner ==
    /\ Idle
    /\ \E player \in world, target \in Targets, twoSide \in BOOLEAN :
           /\ twoSide => (target # NoGuid /\ GetTeam(player) # GetTeam(target))
           /\ SetOwnerCmd(player, target, twoSide)
DoAnnounce == Idle /\ \E player \in world : Announce(player)
DoModerate == Idle /\ \E player \in world : Moderate(player)
DoSay ==
    /\ Idle
    /\ \E player \in world, hasText, rankOk, langOk \in BOOLEAN,
          restriction \in RestrictionModes :
         \E ignorers \in SUBSET (DOMAIN m_players \ {player}) :
           /\ ~rankOk => m_channelId \in {CHANNEL_ID_LOCAL_DEFENSE,
                                          CHANNEL_ID_WORLD_DEFENSE}
           /\ ~langOk => restriction # 0
           /\ ~hasText => (rankOk /\ langOk /\ restriction = 0 /\ ignorers = {})
           /\ Say(player, hasText, rankOk, restriction, langOk, ignorers)
DoInvite ==
    /\ Idle
    /\ \E player \in world, target \in Targets,
          twoSide, targetIgnores \in BOOLEAN :
           /\ twoSide => (target # NoGuid /\ GetTeam(player) # GetTeam(target))
           /\ targetIgnores => target # NoGuid
           /\ Invite(player, target, twoSide, targetIgnores)
DoSendWhoOwner == Idle /\ \E player \in world : SendWhoOwner(player)
\* Only a player of no security level is kept from seeing members, and only
\* members of GM security are kept from it.
DoList ==
    /\ Idle
    /\ \E player \in world :
         \E hidden \in SUBSET (IF IsGM(player) THEN {}
                               ELSE gms \cap DOMAIN m_players) :
           List(player, hidden)
DoSetStatic ==
    /\ Idle
    /\ \E state, command \in BOOLEAN, treshold \in Tresholds :
           /\ command => treshold = 0
           /\ SetStaticCall(state, command, treshold)

\* The sessions take the packets of the finished command; the channel is
\* ready for the next command (commands on one channel are serialized).
Flush ==
    /\ ~Idle
    /\ out' = <<>>
    /\ result' = "idle"
    /\ UNCHANGED <<chanVars, fixedVars>>

\* The security profiles of the world: nobody, or one identity, is a GM.
SecurityProfiles == {{}, {MaxGuid}}
\* CheckPublicMessageLanguage(m_name) of the custom channel's name.
NameIsPublicLanguage == TRUE

Init ==
    /\ \E ch \in ChannelCatalog : Construct(ch, NameIsPublicLanguage)
    /\ world = Guids
    /\ gms \in SecurityProfiles
    /\ out = <<>>
    /\ result = "idle"
    /\ joinOrder = <<>>
    /\ njoin = 0
    /\ nleave = 0

Next ==
    \/ DoJoin /\ UNCHANGED histVars
    \/ DoLeave /\ UNCHANGED histVars
    \/ DoKickOrBan /\ UNCHANGED histVars
    \/ DoUnBan /\ UNCHANGED histVars
    \/ DoPassword /\ UNCHANGED histVars
    \/ DoSetMode /\ UNCHANGED histVars
    \/ DoSetOwner /\ UNCHANGED histVars
    \/ DoAnnounce /\ UNCHANGED histVars
    \/ DoModerate /\ UNCHANGED histVars
    \/ DoSay /\ UNCHANGED histVars
    \/ DoInvite /\ UNCHANGED histVars
    \/ DoSendWhoOwner /\ UNCHANGED histVars
    \/ DoList /\ UNCHANGED histVars
    \/ DoSetStatic /\ UNCHANGED histVars
    \/ Flush /\ UNCHANGED histVars

Spec == Init /\ [][Next]_vars


\* ------------------------------------------------------------ Join/Leave count
\* Join and Leave alone, with the successful joins and leaves counted.
JoinCounted ==
    /\ njoin < MaxJoins
    /\ DoJoin
    /\ njoin' = njoin + (IF result' = "ok" THEN 1 ELSE 0)
    /\ UNCHANGED <<joinOrder, nleave>>
LeaveCounted ==
    /\ DoLeave
    /\ nleave' = nleave + (IF result' = "ok" THEN 1 ELSE 0)
    /\ UNCHANGED <<joinOrder, njoin>>
NextJoinLeave ==
    \/ JoinCounted
    \/ LeaveCounted
    \/ Flush /\ UNCHANGED histVars
SpecJoinLeave == Init /\ [][NextJoinLeave]_vars

\* ------------------------------------------------------------ join order
\* A custom channel in a world of one more player and no GM, with the order in
\* which the current members joined recorded.
InitOrder ==
    /\ Construct(NoEntry, NameIsPublicLanguage)
    /\ world = 1..(MaxGuid + 1)
    /\ gms = {}
    /\ out = <<>>
    /\ result = "idle"
    /\ joinOrder = <<>>
    /\ njoin = 0
    /\ nleave = 0
\* The members that stay keep their order; a new member goes to the end.
OrderKept ==
    /\ joinOrder' = SelectSeq(joinOrder, LAMBDA g : g \in DOMAIN m_players')
                    \o SortedSeq(DOMAIN m_players' \ DOMAIN m_players)
    /\ UNCHANGED <<njoin, nleave>>
NextOrder ==
    \/ DoJoin /\ OrderKept
    \/ DoLeave /\ OrderKept
    \/ DoKickOrBan /\ OrderKept
    \/ DoSetMode /\ OrderKept
    \/ Flush /\ UNCHANGED histVars
SpecOrder == InitOrder /\ [][NextOrder]_vars

\* ------------------------------------------------------------ no GM
\* A world in which no player has GM security.
InitNoGM ==
    /\ \E ch \in ChannelCatalog : Construct(ch, NameIsPublicLanguage)
    /\ world = Guids
    /\ gms = {}
    /\ out = <<>>
    /\ result = "idle"
    /\ joinOrder = <<>>
    /\ njoin = 0
    /\ nleave = 0
SpecNoGM == InitNoGM /\ [][Next]_vars

\* ------------------------------------------------------------ properties
Members == DOMAIN m_players

\* C1: if the channel has an owner, the owner is a member and is moderator.
OwnerIsModeratorMember ==
    m_ownerGuid # NoGuid =>
        /\ m_ownerGuid \in Members
        /\ PI_IsModerator(m_players[m_ownerGuid])

\* C2: no identity is banned and a member at once.
BannedDisjointMembers == m_banned \cap Members = {}
\* A ban has just removed its target, and the channel still has members.
BanRemovedMember ==
    /\ result = "ok"
    /\ \E i \in 1..Len(out) :
           out[i].kind = "PlayerBanned" /\ out[i].guid \in m_banned
    /\ Members # {}

\* C3: a built-in or static channel has no owner.
PublicHasNoOwner == (IsConstant \/ m_static) => m_ownerGuid = NoGuid

\* The fields of a channel record are those of the current state.
SameChannel(c) ==
    /\ c.players = m_players
    /\ c.banned = m_banned
    /\ c.ownerGuid = m_ownerGuid
    /\ c.password = m_password
    /\ c.announce = m_announce
    /\ c.moderate = m_moderate
    /\ c.static = m_static
FalseResults == {"false:same", "false:password", "false:treshold"}
\* The identities a sequence of deliveries went to.
ReceiversOf(o) == {o[i].to : i \in 1..Len(o)}
\* The last command was a Say of player that went through.
SaidBy(player) ==
    /\ result = "ok"
    /\ out # <<>>
    /\ \A i \in 1..Len(out) : out[i].kind = "ChatMsg" /\ out[i].guid = player

\* C4: with Join and Leave alone, the member count is the number of successful
\* joins minus the number of successful leaves.
JoinLeaveCount == Cardinality(Members) = njoin - nleave
\* Several joins and leaves went through, and a member is left.
JoinLeaveCounted == njoin >= 3 /\ nleave >= 2 /\ Cardinality(Members) = 1

\* C5 as claimed: a successful Say of a moderator reaches every member but the
\* speaker; a successful Say of a non-moderator reaches the speaker.
ModeratorSayExcludesSpeaker ==
    Idle =>
      \A player \in Members, rankOk, langOk \in BOOLEAN,
         restriction \in RestrictionModes :
        \A ignorers \in SUBSET (Members \ {player}) :
          LET c == SayOp(Chan, player, TRUE, rankOk, restriction, langOk, ignorers)
          IN  c.res = "ok" =>
                IF PI_IsModerator(m_players[player])
                THEN ReceiversOf(c.out) = Members \ {player}
                ELSE player \in ReceiversOf(c.out)

\* C5 as amended: a successful Say of a moderator reaches every member once,
\* the speaker included, whatever the ignore lists; a successful Say of a
\* non-moderator reaches the speaker.
ModeratorSayReachesAll ==
    Idle =>
      \A player \in Members, rankOk, langOk \in BOOLEAN,
         restriction \in RestrictionModes :
        \A ignorers \in SUBSET (Members \ {player}) :
          LET c == SayOp(Chan, player, TRUE, rankOk, restriction, langOk, ignorers)
          IN  c.res = "ok" =>
                IF PI_IsModerator(m_players[player])
                THEN /\ ReceiversOf(c.out) = Members
                     /\ Len(c.out) = Cardinality(Members)
                     /\ \A i \in 1..Len(c.out) : c.out[i].kind = "ChatMsg"
                ELSE player \in ReceiversOf(c.out)
\* A moderator has spoken in a channel of several members and got its own
\* message.
ModeratorHeardItself ==
    \E player \in Members :
        /\ SaidBy(player)
        /\ PI_IsModerator(m_players[player])
        /\ Cardinality(Members) >= 2
        /\ ReceiversOf(out) = Members

\* C6 as claimed: a successful Say, whatever the role of the sender, reaches no
\* member that has the sender on its ignore list.
SayNeverReachesIgnorers ==
    Idle =>
      \A player \in Members, rankOk, langOk \in BOOLEAN,
         restriction \in RestrictionModes :
        \A ignorers \in SUBSET (Members \ {player}) :
          LET c == SayOp(Chan, player, TRUE, rankOk, restriction, langOk, ignorers)
          IN  c.res = "ok" => ReceiversOf(c.out) \cap ignorers = {}

\* C6 as amended: a successful Say of a sender that is not moderator reaches
\* exactly the members that do not have the sender on their ignore list.
PlainSayNeverReachesIgnorers ==
    Idle =>
      \A player \in Members, rankOk, langOk \in BOOLEAN,
         restriction \in RestrictionModes :
        \A ignorers \in SUBSET (Members \ {player}) :
          LET c == SayOp(Chan, player, TRUE, rankOk, restriction, langOk, ignorers)
          IN  (c.res = "ok" /\ ~PI_IsModerator(m_players[player])) =>
                ReceiversOf(c.out) = Members \ ignorers
\* A member that is not moderator has spoken and some member did not get the
\* message.
PlainSaySkippedIgnorer ==
    \E player \in Members :
        /\ SaidBy(player)
        /\ ~PI_IsModerator(m_players[player])
        /\ Members \ ReceiversOf(out) # {}

\* C7: a Say with a text by a member whose muted bit is set ends with one Muted
\* notice, sent to the actor; nothing else is sent and the channel is unchanged.
MutedSayFails ==
    Idle =>
      \A player \in Members, rankOk, langOk \in BOOLEAN,
         restriction \in RestrictionModes :
        \A ignorers \in SUBSET (Members \ {player}) :
          LET c == SayOp(Chan, player, TRUE, rankOk, restriction, langOk, ignorers)
          IN  PI_IsMuted(m_players[player]) =>
                /\ c.res = "Muted"
                /\ c.out = <<Delivery(Packet("Muted", NoGuid, <<>>), player)>>
                /\ SameChannel(c)
\* A muted moderator has tried to speak and got the Muted notice.
MutedModeratorSilenced ==
    \E player \in Members :
        /\ result = "Muted"
        /\ out = <<Delivery(Packet("Muted", NoGuid, <<>>), player)>>
        /\ PI_IsMuted(m_players[player])
        /\ PI_IsModerator(m_players[player])
        /\ Cardinality(Members) >= 2

\* The owner is a member of a channel that is not public and this step removes
\* it from the member table.
OwnerRemoved ==
    /\ ~IsConstant /\ ~m_static
    /\ m_ownerGuid \in Members
    /\ m_ownerGuid \notin DOMAIN m_players'
\* The first identity of a sequence that was moderator before the step, else
\* the first identity of the sequence, else no identity.
FirstModeratorElseFirst(list) ==
    LET mods == SelectSeq(list, LAMBDA g : PI_IsModerator(m_players[g]))
    IN  IF mods # <<>> THEN mods[1]
        ELSE IF list = <<>> THEN NoGuid ELSE list[1]
\* The least identity of a non-empty set.
Least(S) == CHOOSE x \in S : \A y \in S : x <= y

\* C8 as claimed: when the owner of a non-public channel is removed, the new
\* owner is the first remaining member in join order that is moderator, else
\* the first remaining member in join order, else nobody.
SuccessionInJoinOrder ==
    [][OwnerRemoved => m_ownerGuid' = FirstModeratorElseFirst(joinOrder')]_vars

\* C8 as amended: when the owner of a non-public channel is removed, the new
\* owner is the remaining moderator of least identity (the first in the order
\* of the member table), else the remaining member of least identity, else
\* nobody.
SuccessionInTableOrder ==
    [][OwnerRemoved =>
         LET rest == DOMAIN m_players'
             mods == {g \in rest : PI_IsModerator(m_players[g])}
         IN  m_ownerGuid' = IF mods # {} THEN Least(mods)
                            ELSE IF rest # {} THEN Least(rest) ELSE NoGuid]_vars
\* The owner has gone and a moderator took over although a member of lesser
\* identity was there.
ModeratorSucceeded ==
    /\ result = "ok"
    /\ \E i \in 1..Len(out) : out[i].kind = "OwnerChanged"
    /\ \E i \in 1..Len(out) : out[i].kind \in {"YouLeft", "PlayerKicked", "PlayerBanned"}
    /\ m_ownerGuid \in Members
    /\ m_ownerGuid # Least(Members)

\* C9: SetStatic called, by command or automatically, on a built-in channel or
\* with the state the channel already has returns false, sends nothing and
\* leaves the channel unchanged.
SetStaticSameStateNoOp ==
    Idle =>
      \A state, command \in BOOLEAN, treshold \in Tresholds :
        LET c == SetStatic(Chan, state, command, treshold)
        IN  (m_static = state \/ IsConstant) =>
              /\ c.res \in FalseResults
              /\ c.out = <<>>
              /\ SameChannel(c)
\* SetStatic(true) was called on a static channel with members and returned
\* false.
StaticAgainRefused ==
    /\ m_static
    /\ result = "false:same"
    /\ Members # {}

\* C10: while a password is set, SetStatic(true), by command or automatically
\* and whatever the treshold and the member count, returns false and leaves
\* the channel unchanged; the conversion Join attempts does not happen either.
SetStaticBlockedByPassword ==
    (Idle /\ m_password # "") =>
      /\ \A command \in BOOLEAN, treshold \in Tresholds :
           LET c == SetStatic(Chan, TRUE, command, treshold)
           IN  /\ c.res \in FalseResults
               /\ c.out = <<>>
               /\ SameChannel(c)
      /\ \A player \in world, password \in Passwords, guild, gmSilent \in BOOLEAN,
            treshold \in Tresholds :
           JoinOp(Chan, player, password, guild, gmSilent, treshold).static
               = m_static
\* SetStatic(true) was refused for the password of a channel with as many
\* members as the treshold asks for.
PasswordRefusedStatic ==
    /\ result = "false:password"
    /\ m_password # ""
    /\ ~m_static
    /\ Cardinality(Members) >= AutoTreshold

\* A ban that goes through puts its target in the ban set and out of the member
\* table, and a Join of a banned identity, whatever its password, ends with one
\* Banned notice to that identity and changes nothing.
BanTurnsAway ==
    Idle =>
      /\ \A player \in world, target \in world :
           LET c == KickOrBanOp(Chan, player, target, TRUE)
           IN  c.res = "ok" =>
                 target \in c.banned /\ target \notin DOMAIN c.players
      /\ \A player \in m_banned, password \in Passwords,
            guild, gmSilent \in BOOLEAN, treshold \in Tresholds :
           LET c == JoinOp(Chan, player, password, guild, gmSilent, treshold)
           IN  /\ c.res = "Banned"
               /\ c.out = <<Delivery(Packet("Banned", NoGuid, <<>>), player)>>
               /\ SameChannel(c)
\* A step that takes an identity out of the ban set is an UnBan of that
\* identity that went through.
BanLiftedByUnBanOnly ==
    \A g \in m_banned :
        g \notin m_banned' =>
            (result' = "ok" /\ \E player \in world : UnBan(player, g))

\* C11: after a KickOrBan with ban = true that goes through, the target is
\* banned and no member; every Join of a banned identity fails with Banned and
\* changes nothing; and an identity leaves the ban set only by an UnBan of it
\* that goes through.
BanHoldsUntilUnBan == []BanTurnsAway /\ [][BanLiftedByUnBanOnly]_vars
\* A banned identity has tried to join a channel that still has members and
\* was turned away.
BannedJoinRefused ==
    /\ result = "Banned"
    /\ Members # {}
    /\ \E p \in m_banned :
           /\ p \notin Members
           /\ out = <<Delivery(Packet("Banned", NoGuid, <<>>), p)>>

\* The identities the deliveries of one kind in a sequence went to.
ReceiversOfKind(o, kind) == {o[i].to : i \in {j \in 1..Len(o) : o[j].kind = kind}}

\* C12 as claimed: the joined notice of a Join that goes through and announces
\* is delivered to every member, the joining player included.
JoinedReachesActor ==
    Idle =>
      \A player \in world, password \in Passwords, guild, gmSilent \in BOOLEAN,
         treshold \in Tresholds :
        LET c == JoinOp(Chan, player, password, guild, gmSilent, treshold)
        IN  (c.res = "ok" /\ Announces(Chan, player, gmSilent)) =>
              ReceiversOfKind(c.out, "Joined") = Members \cup {player}

\* C12 as amended: the joined notice of a Join that goes through and announces
\* is delivered once to every identity that was a member before the Join and
\* not to the joining player, which gets the you-joined notice.
JoinedReachesEarlierMembers ==
    Idle =>
      \A player \in world, password \in Passwords, guild, gmSilent \in BOOLEAN,
         treshold \in Tresholds :
        LET c == JoinOp(Chan, player, password, guild, gmSilent, treshold)
            joined == SelectSeq(c.out, LAMBDA d : d.kind = "Joined")
        IN  (c.res = "ok" /\ Announces(Chan, player, gmSilent)) =>
              /\ ReceiversOfKind(c.out, "Joined") = Members
              /\ Len(joined) = Cardinality(Members)
              /\ \A i \in 1..Len(joined) : joined[i].guid = player
              /\ ReceiversOfKind(c.out, "YouJoined") = {player}
\* A player has joined a channel that had a member: the member got the joined
\* notice, the player the you-joined notice only.
JoinedHeardByOthers ==
    /\ result = "ok"
    /\ \E p \in Members :
           /\ ReceiversOfKind(out, "YouJoined") = {p}
           /\ ReceiversOfKind(out, "Joined") = Members \ {p}
           /\ Members \ {p} # {}

\* C13: a SetMode of the moderator mode that the current owner issues against
\* itself, to grant or to revoke, sends nothing and leaves the channel unchanged.
OwnerSelfModeSilent ==
    (Idle /\ m_ownerGuid \in world) =>
      \A set, twoSide \in BOOLEAN :
        LET c == SetModeOp(Chan, m_ownerGuid, m_ownerGuid, TRUE, set, twoSide)
        IN  c.out = <<>> /\ SameChannel(c)

\* The failure notices a command may end on.
FailureKinds ==
    {"NotMember", "NotModerator", "NotOwner", "PlayerNotFound",
     "PlayerAlreadyMember", "Banned", "WrongPassword", "Muted",
     "PlayerNotBanned", "PlayerInviteBanned", "InviteWrongFaction"}
\* A channel record that did not end on the path of success has the fields of
\* the current state.
FailureKeeps(c) == c.res # "ok" => SameChannel(c)

\* C14: a Join, Leave, KickOrBan, UnBan, Password, SetMode, SetOwner, Announce,
\* Moderate, Say, Invite, SendWhoOwner or List that does not go through (it ends on a failure
\* notice or on a silent return) leaves the member table with its role bits,
\* the ban set, the owner, the password and the three mode flags as they were.
FailureChangesNothing ==
    Idle =>
      \A player \in world :
        /\ \A password \in Passwords, guild, gmSilent \in BOOLEAN,
              treshold \in Tresholds :
             FailureKeeps(JoinOp(Chan, player, password, guild, gmSilent,
                                 treshold))
        /\ \A send, gmSilent \in BOOLEAN :
             FailureKeeps(LeaveOp(Chan, player, send, gmSilent))
        /\ \A password \in Passwords : FailureKeeps(PasswordOp(Chan, player, password))
        /\ FailureKeeps(AnnounceOp(Chan, player))
        /\ FailureKeeps(SendWhoOwnerOp(Chan, player))
        /\ \A hidden \in SUBSET Members : FailureKeeps(ListOp(Chan, player, hidden))
        /\ FailureKeeps(ModerateOp(Chan, player))
        /\ \A hasText, rankOk, langOk \in BOOLEAN,
              restriction \in RestrictionModes,
              ignorers \in SUBSET (Members \ {player}) :
             FailureKeeps(SayOp(Chan, player, hasText, rankOk, restriction,
                                langOk, ignorers))
        /\ \A target \in Targets :
             /\ \A ban \in BOOLEAN :
                  FailureKeeps(KickOrBanOp(Chan, player, target, ban))
             /\ FailureKeeps(UnBanOp(Chan, player, target))
             /\ \A moderator, set, twoSide \in BOOLEAN :
                  FailureKeeps(SetModeOp(Chan, player, target, moderator, set,
                                         twoSide))
             /\ \A twoSide \in BOOLEAN :
                  FailureKeeps(SetOwnerCmdOp(Chan, player, target, twoSide))
             /\ \A twoSide, targetIgnores \in BOOLEAN :
                  FailureKeeps(InviteOp(Chan, player, target, twoSide,
                                        targetIgnores))
\* A command has failed in a channel with a password, an owner and a ban, where
\* there was state to change.
FailedWithStateAtStake ==
    /\ result \in FailureKinds
    /\ m_password # ""
    /\ m_banned # {}
    /\ m_ownerGuid \in Members

\* The returns of a handler that are no failure and send nothing: the guild
\* rule of Join, the owner's SetMode against itself, a Say without text.
SilentReturns == {"Refused", "NoOp", "NoText"}
\* A channel record that ended on a failure has sent one notice of that
\* failure, to the actor, or nothing in a silent case.
FailureNotice(player, c, silent) ==
    /\ c.res \in FailureKinds =>
         IF silent THEN c.out = <<>>
         ELSE /\ Len(c.out) = 1
              /\ c.out[1].to = player
              /\ c.out[1].kind = c.res
    /\ c.res \in SilentReturns => c.out = <<>>
\* Every failure of every command sends one notice to the actor; nothing is
\* sent when a member joins a built-in channel again and, if quietLeave, when
\* Leave is called without notice for an identity that is no member.
FailureNotices(quietLeave) ==
    Idle =>
      \A player \in world :
        /\ \A password \in Passwords, guild, gmSilent \in BOOLEAN,
              treshold \in Tresholds :
             FailureNotice(player,
                           JoinOp(Chan, player, password, guild, gmSilent,
                                  treshold),
                           IsConstant /\ player \in Members)
        /\ \A send, gmSilent \in BOOLEAN :
             FailureNotice(player, LeaveOp(Chan, player, send, gmSilent),
                           quietLeave /\ ~send)
        /\ \A password \in Passwords :
             FailureNotice(player, PasswordOp(Chan, player, password), FALSE)
        /\ FailureNotice(player, AnnounceOp(Chan, player), FALSE)
        /\ FailureNotice(player, SendWhoOwnerOp(Chan, player), FALSE)
        /\ \A hidden \in SUBSET Members :
             FailureNotice(player, ListOp(Chan, player, hidden), FALSE)
        /\ FailureNotice(player, ModerateOp(Chan, player), FALSE)
        /\ \A hasText, rankOk, langOk \in BOOLEAN,
              restriction \in RestrictionModes,
              ignorers \in SUBSET (Members \ {player}) :
             FailureNotice(player,
                           SayOp(Chan, player, hasText, rankOk, restriction,
                                 langOk, ignorers),
                           FALSE)
        /\ \A target \in Targets :
             /\ \A ban \in BOOLEAN :
                  FailureNotice(player, KickOrBanOp(Chan, player, target, ban),
                                FALSE)
             /\ FailureNotice(player, UnBanOp(Chan, player, target), FALSE)
             /\ \A moderator, set, twoSide \in BOOLEAN :
                  FailureNotice(player,
                                SetModeOp(Chan, player, target, moderator, set,
                                          twoSide),
                                FALSE)
             /\ \A twoSide \in BOOLEAN :
                  FailureNotice(player,
                                SetOwnerCmdOp(Chan, player, target, twoSide),
                                FALSE)
             /\ \A twoSide, targetIgnores \in BOOLEAN :
                  FailureNotice(player,
                                InviteOp(Chan, player, target, twoSide,
                                         targetIgnores),
                                FALSE)

\* C15 as claimed: every failure of every command sends exactly one notice, to
\* the actor and to nobody else, except that nothing is sent when a member
\* joins a built-in channel again.
OneNoticePerFailure == FailureNotices(FALSE)

\* C15 as amended: every failure of every command sends exactly one notice, to
\* the actor and to nobody else, except that nothing is sent when a member
\* joins a built-in channel again and when Leave is called without notice to
\* the actor for an identity that is no member.
OneNoticePerFailureButQuietLeave == FailureNotices(TRUE)
\* A Leave without notice for an identity that is no member of a channel with
\* members has failed and sent nothing.
QuietLeaveOfNonMember ==
    /\ result = "NotMember"
    /\ out = <<>>
    /\ Members # {}

\* C16: after SetOwner(newOwner, exclaim) with a newOwner that is not empty,
\* newOwner is the owner and holds the owner and the moderator bit, and a
\* previous owner that is a member and is not newOwner holds moderator and not
\* owner; after SetOwner with the empty identity there is no owner and a
\* previous owner that is a member holds neither bit.
SetOwnerBits ==
    Idle =>
      \A guid \in Targets, exclaim \in BOOLEAN :
        LET c == SetOwner(Chan, guid, exclaim)
            old == m_ownerGuid
        IN  /\ c.ownerGuid = guid
            /\ guid # NoGuid =>
                 /\ guid \in DOMAIN c.players
                 /\ PI_IsOwner(c.players[guid])
                 /\ PI_IsModerator(c.players[guid])
            /\ (old \in Members /\ old # guid) =>
                 /\ old \in DOMAIN c.players
                 /\ ~PI_IsOwner(c.players[old])
                 /\ PI_IsModerator(c.players[old]) = (guid # NoGuid)
\* The owner has handed the channel over: the new owner holds both bits and
\* the member that made the transfer is left with moderator alone.
OwnerHandedOver ==
    /\ result = "ok"
    /\ m_ownerGuid \in Members
    /\ m_players[m_ownerGuid] = {MEMBER_FLAG_OWNER, MEMBER_FLAG_MODERATOR}
    /\ \E i \in 1..Len(out) :
           out[i].kind = "OwnerChanged" /\ out[i].guid = m_ownerGuid
    /\ \E old \in Members \ {m_ownerGuid} :
           /\ m_players[old] = {MEMBER_FLAG_MODERATOR}
           /\ \E i \in 1..Len(out) :
                  /\ out[i].kind = "ModeChange"
                  /\ out[i].aux[1] = {MEMBER_FLAG_OWNER, MEMBER_FLAG_MODERATOR}

KickOwnerRefused ==
    (Idle /\ m_ownerGuid \in world) =>
      \A player \in world \ {m_ownerGuid}, ban \in BOOLEAN :
        LET c == KickOrBanOp(Chan, player, m_ownerGuid, ban)
        IN  ~IsGM(player) =>
              /\ c.res # "ok"
              /\ SameChannel(c)
              /\ (/\ player \in Members
                  /\ PI_IsModerator(m_players[player])
                  /\ m_ownerGuid \in Members) =>
                   /\ c.res = "NotOwner"
                   /\ c.out = <<Delivery(Packet("NotOwner", NoGuid, <<>>), player)>>
\* A moderator that is not the owner has tried to remove the owner and got the
\* NotOwner notice.
ModeratorKeptFromOwner ==
    /\ result = "NotOwner"
    /\ m_ownerGuid \in Members
    /\ PI_IsOwner(m_players[m_ownerGuid])
    /\ m_ownerGuid \notin m_banned
    /\ \E player \in Members \ {m_ownerGuid} :
           /\ ~IsGM(player)
           /\ PI_IsModerator(m_players[player])
           /\ out = <<Delivery(Packet("NotOwner", NoGuid, <<>>), player)>>

\* A channel record shows a conversion to static of the current state: the
\* channel is static, has no owner, no member holds the owner or the moderator
\* bit, moderation and announcements are off, and a ModerationOff and an
\* AnnouncementsOff notice without actor went once to every member exactly if
\* the flag was on before.
ConvertedToStatic(c) ==
    LET offs(kind) == SelectSeq(c.out, LAMBDA d : d.kind = kind)
    IN  /\ c.static
        /\ \A i \in 1..Len(c.out) :
               c.out[i].kind \in {"ModerationOff", "AnnouncementsOff"} =>
                   c.out[i].guid = NoGuid
        /\ c.ownerGuid = NoGuid
        /\ \A g \in DOMAIN c.players :
               ~PI_IsOwner(c.players[g]) /\ ~PI_IsModerator(c.players[g])
        /\ ~c.moderate
        /\ ~c.announce
        /\ [i \in 1..Len(offs("ModerationOff")) |-> offs("ModerationOff")[i].to]
               = (IF m_moderate THEN PlayerList(c) ELSE <<>>)
        /\ [i \in 1..Len(offs("AnnouncementsOff")) |-> offs("AnnouncementsOff")[i].to]
               = (IF m_announce THEN PlayerList(c) ELSE <<>>)

\* C19: after every SetStatic(true) that returns true, called by command or
\* automatically (from outside or at the end of a Join), the channel is static
\* and without owner, no member holds the owner or the moderator bit,
\* moderation and announcements are off, and the ModerationOff and the
\* AnnouncementsOff notice, without actor, were broadcast exactly for the flags
\* that were on.
StaticConversionClears ==
    Idle =>
      /\ \A command \in BOOLEAN, treshold \in Tresholds :
           LET c == SetStatic(Chan, TRUE, command, treshold)
           IN  c.res = "true" => ConvertedToStatic(c)
      /\ \A player \in world, password \in Passwords, guild, gmSilent \in BOOLEAN,
            treshold \in Tresholds :
           LET c == JoinOp(Chan, player, password, guild, gmSilent, treshold)
           IN  (~m_static /\ c.static) => ConvertedToStatic(c)
\* SetStatic(true) went through on a channel that had an owner, a second
\* moderator, moderation and announcements on: both notices went out.
StaticConversionDone ==
    /\ result = "true"
    /\ m_static
    /\ Cardinality(Members) >= 2
    /\ \E i \in 1..Len(out) : out[i].kind = "ModerationOff" /\ out[i].guid = NoGuid
    /\ \E i \in 1..Len(out) : out[i].kind = "AnnouncementsOff" /\ out[i].guid = NoGuid
    /\ \E g, h \in Members :
           /\ g # h
           /\ \E i \in 1..Len(out) :
                  /\ out[i].kind = "ModeChange" /\ out[i].guid = g
                  /\ out[i].aux[1] = {MEMBER_FLAG_MODERATOR}
           /\ \E i \in 1..Len(out) :
                  /\ out[i].kind = "ModeChange" /\ out[i].guid = h
                  /\ MEMBER_FLAG_OWNER \in out[i].aux[1]

\* The values of the static-auto-treshold setting tried on a single call: zero
\* (off), and every member count the world allows and one more.
AnyTreshold == 0..(Cardinality(world) + 1)

\* C20: a SetStatic that is not a command changes the static flag only with a
\* treshold that is not zero and that the member count compares to (count >=
\* treshold) as the requested state says; a Join that goes through on a custom
\* channel that is not static and has no password makes it static exactly if
\* the treshold is not zero and the member count after the Join is at least
\* the treshold; no other Join changes the static flag.
AutoConversionAtTreshold ==
    Idle =>
      /\ \A state \in BOOLEAN, treshold \in AnyTreshold :
           LET c == SetStatic(Chan, state, FALSE, treshold)
           IN  c.static # m_static =>
                 /\ treshold # 0
                 /\ (Cardinality(Members) >= treshold) = state
                 /\ c.static = state
      /\ \A player \in world, password \in Passwords, guild, gmSilent \in BOOLEAN,
            treshold \in AnyTreshold :
           LET c == JoinOp(Chan, player, password, guild, gmSilent, treshold)
           IN  IF c.res = "ok" /\ HasFlag("CUSTOM") /\ ~m_static /\ m_password = ""
               THEN c.static = (treshold # 0
                                /\ Cardinality(DOMAIN c.players) >= treshold)
               ELSE c.static = m_static
\* A Join has brought the member count of a custom channel to the treshold and
\* the channel has turned static.
JoinTurnedStatic ==
    /\ result = "ok"
    /\ m_static
    /\ HasFlag("CUSTOM")
    /\ Cardinality(Members) >= AutoTreshold
    /\ m_ownerGuid = NoGuid
    /\ \E i \in 1..Len(out) : out[i].kind = "YouJoined"
    /\ \E i \in 1..Len(out) : out[i].kind = "ModeChange"

\* C21: a SetMode, of the moderator or of the muted bit, against the current
\* owner by another identity, whatever its security, does not go through and
\* changes nothing; when the actor has passed the checks that come first (it
\* is a member and is moderator or of GM security, and the owner is a member),
\* the command ends with one notice to the actor: PlayerNotFound if the
\* faction rule turns the actor away, NotOwner otherwise.
SetModeSparesOwner ==
    (Idle /\ m_ownerGuid \in world) =>
      \A player \in world \ {m_ownerGuid}, moderator, set, twoSide \in BOOLEAN :
        LET c == SetModeOp(Chan, player, m_ownerGuid, moderator, set, twoSide)
            otherFaction == /\ ~IsGM(player) \/ ~IsGM(m_ownerGuid)
                            /\ GetTeam(player) # GetTeam(m_ownerGuid)
                            /\ ~twoSide
            kind == IF otherFaction THEN "PlayerNotFound" ELSE "NotOwner"
        IN  /\ c.res \in FailureKinds
            /\ SameChannel(c)
            /\ (ModGate(Chan, player) = "ok" /\ m_ownerGuid \in Members) =>
                 /\ c.res = kind
                 /\ c.out = <<Delivery(Packet(kind, NoGuid, <<>>), player)>>
\* A member of GM security has tried to change a flag of the owner and got the
\* NotOwner notice.
GMKeptFromOwnerFlags ==
    /\ result = "NotOwner"
    /\ m_ownerGuid \in Members
    /\ PI_IsOwner(m_players[m_ownerGuid])
    /\ \E player \in (Members \cap gms) \ {m_ownerGuid} :
           out = <<Delivery(Packet("NotOwner", NoGuid, <<>>), player)>>

\* C22: an UnBan by a member that is moderator or of GM security, for a target
\* that was found: if the target is not banned, the command ends with one
\* PlayerNotBanned notice to the actor and changes nothing; else it takes
\* exactly the target out of the ban set, leaves the member table, the owner,
\* the password and the mode flags as they were, sends one PlayerUnbanned
\* notice naming target and actor to every member, and no Join of the target
\* that follows ends with Banned.
UnBanLiftsBan ==
    Idle =>
      \A player \in world, target \in world :
        LET c == UnBanOp(Chan, player, target)
            list == PlayerList(Chan)
        IN  ModGate(Chan, player) = "ok" =>
              IF target \notin m_banned
              THEN /\ c.res = "PlayerNotBanned"
                   /\ c.out = <<Delivery(Packet("PlayerNotBanned", NoGuid, <<>>),
                                         player)>>
                   /\ SameChannel(c)
              ELSE /\ c.res = "ok"
                   /\ c.banned = m_banned \ {target}
                   /\ SameChannel([c EXCEPT !.banned = m_banned])
                   /\ c.out = [i \in 1..Len(list) |->
                                 Delivery(Packet("PlayerUnbanned", target,
                                                 <<player>>), list[i])]
                   /\ \A password \in Passwords, guild, gmSilent \in BOOLEAN,
                         treshold \in Tresholds :
                        JoinOp([c EXCEPT !.out = <<>>], target, password, guild,
                               gmSilent, treshold).res # "Banned"
\* An identity has been unbanned in a channel with members, who all got the
\* notice.
UnbannedAnnounced ==
    /\ result = "ok"
    /\ Cardinality(Members) >= 1
    /\ \E target \in world \ (Members \cup m_banned), player \in Members :
           out = [i \in 1..Len(PlayerList(Chan)) |->
                    Delivery(Packet("PlayerUnbanned", target, <<player>>),
                             PlayerList(Chan)[i])]

\* C23: every member that carries the owner bit is the identity stored as
\* owner, so at most one member carries it.
OwnerBitOnlyOnOwner ==
    \A g \in Members : PI_IsOwner(m_players[g]) => g = m_ownerGuid

\* SetOwner has taken the owner bit from a member (the first role-change
\* notice shows flags with the bit, replaced by flags without it) and the one
\* member that holds the bit now is the owner; another member, a moderator
\* without the bit, is there.
OwnerBitMoved ==
    /\ result = "ok"
    /\ Cardinality({g \in Members : PI_IsOwner(m_players[g])}) = 1
    /\ m_ownerGuid \in Members
    /\ PI_IsOwner(m_players[m_ownerGuid])
    /\ \E i \in 1..Len(out) :
           /\ out[i].kind = "ModeChange"
           /\ MEMBER_FLAG_OWNER \in out[i].aux[1]
           /\ MEMBER_FLAG_OWNER \notin out[i].aux[2]
    /\ \E old \in Members \ {m_ownerGuid} :
           m_players[old] = {MEMBER_FLAG_MODERATOR}

\* C24: a custom channel that is not static and has a member has an owner, and
\* the owner is one of the members.
NonPublicHasOwner ==
    (HasFlag("CUSTOM") /\ ~m_static /\ Members # {}) => m_ownerGuid \in Members

\* A static channel has no owner, no member with the owner or the moderator
\* bit, and moderation and announcements off.
StaticUnmoderated ==
    m_static =>
      /\ m_ownerGuid = NoGuid
      /\ \A g \in Members :
             ~PI_IsOwner(m_players[g]) /\ ~PI_IsModerator(m_players[g])
      /\ ~m_moderate
      /\ ~m_announce
\* A step from a static channel to a static channel keeps the password and
\* the ban set.
StaticKeepsPasswordAndBans ==
    (m_static /\ m_static') => (m_password' = m_password /\ m_banned' = m_banned)

\* C25: when no actor has GM security, a channel that has become static has,
\* for as long as it is static and whatever commands are issued, no owner, no
\* member with the moderator or the owner bit, moderation and announcements
\* off, and the password and the ban set it had at the conversion.
StaticStaysUnmoderated ==
    []StaticUnmoderated /\ [][StaticKeepsPasswordAndBans]_vars
\* A member of a static channel with a ban from before the conversion has
\* tried a moderator command and was refused.
StaticRefusedModeration ==
    /\ m_static
    /\ result = "NotModerator"
    /\ m_banned # {}
    /\ \E player \in Members :
           out = <<Delivery(Packet("NotModerator", NoGuid, <<>>), player)>>

====
